---- MODULE Spec2Model ----
(***************************************************************************)
(* Model of src/interface/concurrent.py: the concurrent trial runner       *)
(* MergeSim.run with its worker processes doSim, and the termination       *)
(* policy FirstStepRate.terminate.                                         *)
(*                                                                         *)
(* The shared manager.list() objects are kept as bags: run, doSim and      *)
(* terminate only append to them and count over them, no position is read. *)
(* MergeSim.seed is 7713147777, beyond the integers TLC can hold, so every *)
(* seed of the model is the offset from MergeSim.seed.  The seed handed to *)
(* a worker is a float; it is kept in units of 1/Scale so that the int()   *)
(* of the initial_seed setter is a real truncation.                        *)
(*                                                                         *)
(* The rate estimator FirstStepRate and Bootstrap over it are modelled as  *)
(* objects worked on by one caller (SpecRates, SpecBoot).  Numbers are     *)
(* exact rationals extended with nan and inf, which numpy returns where a  *)
(* mean is taken over nothing or a float64 is divided by zero; rounding of *)
(* the floats is not modelled.  The interpreter is Python 3 with a numpy   *)
(* that still has np.float (an alias of float); Options.STR_SUCCESS and    *)
(* Options.STR_FAILURE are the tags "SUCCESS" and "FAILURE".               *)
(*                                                                         *)
(* FirstPassageRate and Bootstrap over it have their caller in             *)
(* SpecPassage.  SpecLive is the run under the adaptive policy with the    *)
(* fairness of its thread and of its worker processes, SpecRerun the run   *)
(* called again on the same MergeSim object.  SpecOptions is a caller of   *)
(* the output counter and of the set-once lists of                         *)
(* src/src/interface/_options/options.py.                                  *)
(***************************************************************************)
EXTENDS Integers, Sequences, FiniteSets, Bags, TLC

\* ---------------------------------------------------------------- bounds
MaxThreads == 2        \* largest numOfThreads tried
MaxRequested == 3      \* largest factory.input0 (requested trials) tried
MaxRoundTrials == 16   \* a round is launched only while numOfThreads * trialsPerThread stays within this
MaxHalfTicks == 1      \* sub-integer clock readings tried: 0 .. MaxHalfTicks (in units of 1/Scale)
MaxSeedRoundTrials == 4  \* the cap of MaxRoundTrials in the specification of the seeds
MaxLen == 3            \* longest list of trial results handed to an estimator (the long lists apart)
MaxConc == 2           \* concentrations tried: 1 .. MaxConc
MaxBootLen == 2        \* longest list of trial results resampled
MaxPassageLen == 2     \* longest list of trial results handed to a FirstPassageRate
MaxInterval == 2       \* largest output_interval a caller of Options sets
MaxItems == 2          \* longest list assigned to start_state / stop_conditions

\* ------------------------------------------------------- program constants
seed == 0              \* MergeSim.seed, as the offset from 7713147777
SeedStride == 285      \* 3 * 5 * 19, the per-index stride of instanceSeed
PerturbationModulus == 65535   \* math.pow(2, 16) - 1
Scale == 2             \* resolution of the float seed: one unit is 1/Scale
MinSuccess == 25       \* FirstStepRate.terminate: continue while nForward <= 25
BootN == 400           \* Bootstrap.process: self.N
TimeoutFloor == 10     \* FirstPassageRate.kEff: assert (i.time >= 10.0)
DefaultCap == 600      \* Options._simulation_time, the cap on the simulation time

STR_SUCCESS == "SUCCESS"
STR_FAILURE == "FAILURE"
STR_TIMEOUT == "timeout"
NoTag == "None"        \* the tag None of a trial result without a tag

VARIABLES
    numOfThreads,         \* MergeSim.numOfThreads
    input0,               \* factory.input0, the requested number of trials
    terminationCriteria,  \* "None" or "FirstStepRate"
    pc,                   \* position of run: "start", "launch", "join", "policy", "returned", "raised"
    error,                \* exception that left run, "none" if none
    trialsPerThread,      \* self.trialsPerThread
    results,              \* self.results, the shared manager.list()
    endStates,            \* self.endStates, the shared manager.list()
    terminate,            \* local variable terminate of run
    procs,                \* the list procs of the current round, one record per worker process
    round,                \* number of rounds launched so far in this run
    decisions,            \* what terminate() returned, round by round
    produced,             \* every result any engine call of this run has returned
    usedSeeds,            \* initial_seed values handed out in earlier rounds of this run
    clock,                \* the last reading of time.time(), in units of 1/Scale
    joined,               \* number of procs[i].join() calls that have returned in this round
    engineFailed,         \* some SimSystem.start() of this run raised
    resultSet,            \* the list of trial results a caller of the estimators holds
    myRates,              \* the estimator object the caller works on
    call,                 \* the last call the caller made: its arguments, what it returned or raised
    boot,                 \* the Bootstrap object of the last Bootstrap(...) call, as process left it
    options               \* an Options object a caller configures

runVars == <<numOfThreads, input0, terminationCriteria, pc, error, trialsPerThread,
             results, endStates, terminate, procs, round, decisions, produced,
             usedSeeds, clock, joined, engineFailed>>

rateVars == <<resultSet, myRates, call, boot>>

vars == <<numOfThreads, input0, terminationCriteria, pc, error, trialsPerThread,
          results, endStates, terminate, procs, round, decisions, produced,
          usedSeeds, clock, joined, engineFailed, resultSet, myRates, call, boot, options>>

\* ------------------------------------------------------------ pure helpers

\* the division rounded down instead of up
CeilDiv_Floor(a, b) ==
    IF b > 0 THEN a \div b
             ELSE 0 - (a \div (0 - b))

\* int(math.ceil(float(a) / float(b))) for a >= 0 and b # 0
CeilDiv(a, b) ==
    IF b > 0 THEN (a + b - 1) \div b
             ELSE 0 - (a \div (0 - b))

\* a TrialResult as the engine returns it in first step mode
Result(tag) == [tag |-> tag, time |-> 1, collision_rate |-> 1]

\* an append that keeps one copy of equal records
BagAdd_Dedup(B, x) == IF x \in BagToSet(B) THEN B ELSE B (+) SetToBag({x})

\* list.append(x) on the shared list: the bag holding one more copy of x
BagAdd(B, x) == B (+) SetToBag({x})

\* the records of the list s, as a bag
SeqToBag(s) ==
    [x \in {s[i] : i \in DOMAIN s} |-> Cardinality({i \in DOMAIN s : s[i] = x})]

\* some list holding exactly the records of the bag B (the order in which the
\* appends reached the manager)
ListOf(B) ==
    LET RECURSIVE listed(_)
        listed(S) ==
            IF S = {} THEN <<>>
            ELSE LET x == CHOOSE y \in S : TRUE
                 IN  [i \in 1..B[x] |-> x] \o listed(S \ {x})
    IN  listed(BagToSet(B))

RECURSIVE sum(_)
sum(s) == IF s = <<>> THEN 0 ELSE Head(s) + sum(Tail(s))

\* ------------------------------------------------------------- numbers

RECURSIVE GCD(_, _)
GCD(a, b) == IF b = 0 THEN a ELSE GCD(b, a % b)

Abs(x) == IF x < 0 THEN 0 - x ELSE x

\* the float n / d, d # 0, in lowest terms with a positive denominator
Fin(n, d) ==
    LET g == GCD(Abs(n), Abs(d))
        sg == IF d < 0 THEN 0 - 1 ELSE 1
    IN  [k |-> "fin", n |-> sg * (n \div g), d |-> sg * (d \div g)]

NaN == [k |-> "nan", n |-> 0, d |-> 0]

Inf == [k |-> "inf", n |-> 1, d |-> 0]

\* MINIMUM_RATE = 1e-18, kept as a value of its own: it lies above 0 and
\* below every positive rational the model can form
MINIMUM_RATE == [k |-> "min", n |-> 0, d |-> 1]

IsZero(a) == a.k = "fin" /\ a.n = 0

\* float64 addition of non-negative values
NAdd(a, b) ==
    IF a.k = "nan" \/ b.k = "nan" THEN NaN
    ELSE IF a.k = "inf" \/ b.k = "inf" THEN Inf
    ELSE Fin(a.n * b.d + b.n * a.d, a.d * b.d)

\* float64 multiplication of non-negative values
NMul(a, b) ==
    IF a.k = "nan" \/ b.k = "nan" THEN NaN
    ELSE IF a.k = "inf" \/ b.k = "inf"
         THEN (IF IsZero(a) \/ IsZero(b) THEN NaN ELSE Inf)
    ELSE Fin(a.n * b.n, a.d * b.d)

\* numpy float64 division: x / 0 is inf, 0 / 0 is nan, no exception
NDiv(a, b) ==
    IF a.k = "nan" \/ b.k = "nan" THEN NaN
    ELSE IF a.k = "inf" THEN (IF b.k = "inf" THEN NaN ELSE Inf)
    ELSE IF b.k = "inf" THEN Fin(0, 1)
    ELSE IF b.n = 0 THEN (IF a.n = 0 THEN NaN ELSE Inf)
    ELSE Fin(a.n * b.d, a.d * b.n)

\* the mean that takes the first element for the whole array
mean_First(s) == IF Len(s) = 0 THEN NaN ELSE Fin(s[1], 1)

\* np.mean of an array of numbers: nan for the empty array
mean(s) == IF Len(s) = 0 THEN NaN ELSE Fin(sum(s), Len(s))

One == Fin(1, 1)

\* ------------------------------------------------------- FirstStepRate

\* FirstStepRate.process: the arrays was_success and was_failure
\* the flags of successes with the last trial result left out
was_success_DropLast(dataset) ==
    [i \in 1..Len(dataset) |->
        IF i < Len(dataset) /\ dataset[i].tag = STR_SUCCESS THEN 1 ELSE 0]

was_success(dataset) ==
    [i \in 1..Len(dataset) |-> IF dataset[i].tag = STR_SUCCESS THEN 1 ELSE 0]

was_failure(dataset) ==
    [i \in 1..Len(dataset) |-> IF dataset[i].tag = STR_FAILURE THEN 1 ELSE 0]

\* every record counted as a success
nForward_All(dataset) == Len(dataset)

\* FirstStepRate.generateRates: the counts
nForward(dataset) == sum(was_success(dataset))

nReverse(dataset) == sum(was_failure(dataset))

nTotal(dataset) == nForward(dataset) + nReverse(dataset)

\* the test on the wrong side of the threshold value: stop at MinSuccess already
FirstStepRate_terminate_AtMin(dataset) ==
    IF nForward(dataset) < MinSuccess THEN FALSE ELSE TRUE

\* a policy that never answers "stop"
FirstStepRate_terminate_Never(dataset) == FALSE

\* FirstStepRate.terminate: TRUE is "stop", FALSE is "continue"
FirstStepRate_terminate(dataset) ==
    IF nForward(dataset) <= MinSuccess THEN FALSE ELSE TRUE

\* None, where a number is expected
None == [k |-> "none", n |-> 0, d |-> 0]

\* the value -1.0 the waiting times are set to by __init__
MinusOne == Fin(0 - 1, 1)

\* [vals[i] for i in range(len(flags)) if flags[i] == 1]
RECURSIVE Pick(_, _)
Pick(vals, flags) ==
    IF flags = <<>> THEN <<>>
    ELSE (IF Head(flags) = 1 THEN <<Head(vals)>> ELSE <<>>) \o Pick(Tail(vals), Tail(flags))

\* FirstStepRate.generateRates on the object o
generateRates(o) ==
    [o EXCEPT !.forward_times = Pick(o.time, o.was_success),
              !.reverse_times = Pick(o.time, o.was_failure),
              !.collision_forward = Pick(o.collision_rates, o.was_success),
              !.collision_reverse = Pick(o.collision_rates, o.was_failure),
              !.nForward = sum(o.was_success),
              !.nReverse = sum(o.was_failure),
              !.nTotal = sum(o.was_success) + sum(o.was_failure)]

\* FirstStepRate.process on the object o
process(o, dataset, concentration) ==
    [o EXCEPT !.z = concentration,
              !.collision_rates = [i \in 1..Len(dataset) |-> dataset[i].collision_rate],
              !.was_success = was_success(dataset),
              !.was_failure = was_failure(dataset),
              !.time = [i \in 1..Len(dataset) |-> dataset[i].time]]

\* the fields of a FirstStepRate object as __init__ leaves them before it
\* looks at the dataset
FirstStepRate_fields(concentration) ==
    [z |-> concentration,
     collision_rates |-> <<>>, was_success |-> <<>>, was_failure |-> <<>>, time |-> <<>>,
     forward_times |-> <<>>, reverse_times |-> <<>>,
     collision_forward |-> <<>>, collision_reverse |-> <<>>,
     nForward |-> 0, nReverse |-> 0, nTotal |-> 0,
     dTcoll_reverse |-> MinusOne, dTfail_uni |-> MinusOne,
     dTcoll_forward |-> MinusOne, dTsuccess_uni |-> MinusOne,
     multiple |-> None]

\* FirstStepRate(concentration=c): the empty object of the resampling code
FirstStepRate_empty(concentration) ==
    generateRates(FirstStepRate_fields(concentration))

\* FirstStepRate(dataset, concentration)
FirstStepRate(dataset, concentration) ==
    generateRates(process(FirstStepRate_fields(concentration), dataset, concentration))

\* k1 with the mean collision rate of all trials
k1_OverAll(o) ==
    IF o.nTotal = 0 THEN MINIMUM_RATE
    ELSE NMul(Fin(o.nForward, o.nTotal), mean(o.collision_rates))

\* FirstStepRate.k1
k1(o) ==
    IF o.nTotal = 0 THEN MINIMUM_RATE
    ELSE NMul(Fin(o.nForward, o.nTotal), mean(o.collision_forward))

\* the concentration kEff works with
kEff_z(o, concentration) == IF concentration # None THEN concentration ELSE o.z

\* the object after kEff with the mean collision rate of all trials in both branches
kEff_self_MeanAll(o, concentration) ==
    IF o.nForward = 0 THEN o
    ELSE LET z == kEff_z(o, concentration)
         IN  [o EXCEPT !.dTsuccess_uni = mean(o.forward_times),
                       !.dTfail_uni = mean(o.reverse_times),
                       !.multiple = Fin(o.nReverse, o.nForward),
                       !.dTcoll_forward = NDiv(One, NMul(mean(o.collision_rates), z)),
                       !.dTcoll_reverse = NDiv(One, NMul(mean(o.collision_rates), z))]

\* FirstStepRate.kEff: the object after the call (the waiting times it stores)
kEff_self(o, concentration) ==
    IF o.nForward = 0 THEN o
    ELSE LET z == kEff_z(o, concentration)
         IN  [o EXCEPT !.dTsuccess_uni = mean(o.forward_times),
                       !.dTfail_uni = mean(o.reverse_times),
                       !.multiple = Fin(o.nReverse, o.nForward),
                       !.dTcoll_forward = NDiv(One, NMul(mean(o.collision_forward), z)),
                       !.dTcoll_reverse = NDiv(One, NMul(mean(o.collision_reverse), z))]

\* kEff that reuses the waiting times an earlier call has stored
kEff_Cached(o, concentration) ==
    IF o.nForward = 0 THEN MINIMUM_RATE
    ELSE LET z == kEff_z(o, concentration)
             a == IF o.dTsuccess_uni # MinusOne THEN o ELSE kEff_self(o, concentration)
             dTfail == NAdd(a.dTcoll_reverse, a.dTfail_uni)
             dTforward == NAdd(a.dTcoll_forward, a.dTsuccess_uni)
             dTcorrect == NAdd(NMul(dTfail, a.multiple), dTforward)
         IN  NMul(NDiv(One, dTcorrect), NDiv(One, z))

\* FirstStepRate.kEff: the value returned
kEff(o, concentration) ==
    IF o.nForward = 0 THEN MINIMUM_RATE
    ELSE LET z == kEff_z(o, concentration)
             a == kEff_self(o, concentration)
             dTfail == NAdd(a.dTcoll_reverse, a.dTfail_uni)
             dTforward == NAdd(a.dTcoll_forward, a.dTsuccess_uni)
             dTcorrect == NAdd(NMul(dTfail, a.multiple), dTforward)
         IN  NMul(NDiv(One, dTcorrect), NDiv(One, z))

\* ------------------------------------------------------- optionsFactory

\* Options.initial_seed setter: int(seed), on a float kept in units of 1/Scale
IntOf(x) == x \div Scale

\* optionsFactory.new: the initial_seed of the options object it returns
new(inputSeed) == IntOf(inputSeed)

\* ------------------------------------------------------------- MergeSim

\* (time.time() * 10000000) % (math.pow(2, 16) - 1) for a clock reading given
\* in units of 1/Scale
Perturbation(ticks) == ticks % (PerturbationModulus * Scale)

\* the seed without the stride of the worker's index
instanceSeed_NoIndex(i, ticks) ==
    seed * Scale + Perturbation(ticks)

\* instanceSeed of the worker with index i (0-based), in units of 1/Scale
instanceSeed(i, ticks) ==
    (seed + i * 3 * 5 * 19) * Scale + Perturbation(ticks)

\* clock readings tried at a launch in the specification of the seeds:
\* sub-integer steps, one stride later, and one full period later
ClockReadings ==
    (0..MaxHalfTicks) \cup {SeedStride * Scale, PerturbationModulus * Scale}

\* the one clock reading of the specification of the rounds
SteadyClock == {0}

\* what SimSystem.start() can leave in interface.results for num_simulations
\* trials: every trial a success, or every trial a failure
EngineResults(num_simulations) ==
    { [k \in 1..num_simulations |-> Result(tag)] : tag \in {STR_SUCCESS, STR_FAILURE} }

\* interface.end_states: one end state per trial
EngineEndStates(num_simulations) == [k \in 1..num_simulations |-> "end_state"]

\* a join that does not wait for a process that is still appending
JoinReturns_Early(p) == p.st \in {"appending", "exited", "crashed"}

\* procs[i].join() returns once the process has ended, however it ended
JoinReturns(p) == p.st \in {"exited", "crashed"}

\* the assertion without effect
AssertHolds_Off(n) == TRUE

\* assert(self.numOfThreads > 0)
AssertHolds(n) == n > 0

\* the next round with one more trial instead of twice as many
NextTrialsPerThread_Inc(t) == t + 1

\* the trial count of the next round
NextTrialsPerThread(t) == t * 2

\* FirstStepRate.merge without the regeneration of the rates
merge_Stale(o, that) ==
    [o EXCEPT !.collision_rates = @ \o that.collision_rates,
              !.was_success = @ \o that.was_success,
              !.was_failure = @ \o that.was_failure,
              !.time = @ \o that.time]

\* FirstStepRate.merge: the receiver after the call
merge(o, that) ==
    generateRates([o EXCEPT !.collision_rates = @ \o that.collision_rates,
                            !.was_success = @ \o that.was_success,
                            !.was_failure = @ \o that.was_failure,
                            !.time = @ \o that.time])

\* FirstStepRate.merge: what the call prints
merge_print(o, that) ==
    IF o.z # that.z
    THEN <<"Error! Cannot combine results from different concentrations">>
    ELSE <<>>

\* resample that takes the times in their original order
resample_TimeInPlace(o, draws) ==
    LET newRates == FirstStepRate_empty(o.z)
        N == Len(o.collision_rates)
    IN  generateRates(
            [newRates EXCEPT
                !.collision_rates = [j \in 1..N |-> o.collision_rates[draws[j] + 1]],
                !.was_success = [j \in 1..N |-> o.was_success[draws[j] + 1]],
                !.was_failure = [j \in 1..N |-> o.was_failure[draws[j] + 1]],
                !.time = o.time])

\* FirstStepRate.resample: the new estimator, draws[j] being the index drawn
\* for the j-th record
resample(o, draws) ==
    LET newRates == FirstStepRate_empty(o.z)
        N == Len(o.collision_rates)
    IN  generateRates(
            [newRates EXCEPT
                !.collision_rates = [j \in 1..N |-> o.collision_rates[draws[j] + 1]],
                !.was_success = [j \in 1..N |-> o.was_success[draws[j] + 1]],
                !.was_failure = [j \in 1..N |-> o.was_failure[draws[j] + 1]],
                !.time = [j \in 1..N |-> o.time[draws[j] + 1]]])

\* the indices int(floor(uniform(high=N))) can give for N records
Draws(N) == [1..N -> 0..(N - 1)]

\* the random streams tried for the BootN resamples of a Bootstrap: the draw
\* for record j of resample i is (a*i + b*j + c) % N for a stream <<a, b, c>>
Streams == {<<0, 1, 0>>, <<1, 0, 0>>, <<1, 1, 1>>}

StreamDraws(stream, i, N) ==
    [j \in 1..N |-> (stream[1] * i + stream[2] * j + stream[3]) % N]

\* Bootstrap.process, line 386: list.sort() of Python 3 takes no argument
\* cmp; the call raises before any element is moved
sort_raises == "TypeError"

\* Bootstrap.process up to the sort: the estimator with its concentration
\* overwritten
Bootstrap_myRates(o, concentration) ==
    IF concentration # None THEN [o EXCEPT !.z = concentration] ELSE o

\* Bootstrap.process up to the sort: the BootN resamples
Bootstrap_samples(o, concentration, stream) ==
    LET r == Bootstrap_myRates(o, concentration)
    IN  [i \in 1..BootN |-> resample(r, StreamDraws(stream, i, Len(r.collision_rates)))]

\* Bootstrap.process up to the sort: self.effectiveRates
Bootstrap_effectiveRates(o, concentration, computek1, stream) ==
    LET samples == Bootstrap_samples(o, concentration, stream)
    IN  [i \in 1..BootN |-> IF computek1 THEN k1(samples[i]) ELSE kEff(samples[i], None)]

\* float <= float
NLeq(a, b) ==
    IF a.k = "nan" \/ b.k = "nan" THEN FALSE
    ELSE IF b.k = "inf" THEN TRUE
    ELSE IF a.k = "inf" THEN FALSE
    ELSE IF a.k = "min" THEN b.k = "min" \/ b.n > 0
    ELSE IF b.k = "min" THEN a.n <= 0
    ELSE a.n * b.d <= b.n * a.d

\* Bootstrap.ninetyFivePercentiles on the Bootstrap object b
ninetyFivePercentiles(b) ==
    [low |-> b.effectiveRates[((25 * b.N) \div 1000) + 1],
     high |-> b.effectiveRates[((975 * b.N) \div 1000) + 1]]

\* float < float
NLess(a, b) == NLeq(a, b) /\ a # b

\* FirstStepRate.testForTwoStateness: whether it prints its warning
testForTwoStateness(o) ==
    LET a == kEff_self(o, None)
        testFail == NLess(NDiv(a.dTcoll_reverse, a.dTfail_uni), Fin(9, 1))
        testSucces == NLess(NDiv(a.dTcoll_forward, a.dTsuccess_uni), Fin(9, 1))
    IN  testFail \/ testSucces

\* ---------------------------------------------------- FirstPassageRate

\* the times of the successful trials alone
passage_times_Success(dataset) ==
    SelectSeq([i \in 1..Len(dataset) |-> dataset[i].time],
              LAMBDA t : \E i \in 1..Len(dataset) :
                            dataset[i].time = t /\ dataset[i].tag = STR_SUCCESS)

\* FirstPassageRate.process: self.times
passage_times(dataset) == [i \in 1..Len(dataset) |-> dataset[i].time]

\* FirstPassageRate.process: self.timeouts
passage_timeouts(dataset) == SelectSeq(dataset, LAMBDA i : ~(i.tag = STR_SUCCESS))

\* FirstPassageRate(dataset, concentration); the object has no attribute z
\* (None here) until a Bootstrap gives it one
FirstPassageRate(dataset, concentration) ==
    [concentration |-> concentration,
     times |-> passage_times(dataset),
     timeouts |-> passage_timeouts(dataset),
     z |-> None]

\* FirstPassageRate(concentration=c): the empty object of the resampling code
FirstPassageRate_empty(concentration) ==
    [concentration |-> concentration, times |-> <<>>, timeouts |-> <<>>, z |-> None]

\* FirstPassageRate.resample: only the times are drawn
FirstPassageRate_resample(o, draws) ==
    [FirstPassageRate_empty(o.concentration) EXCEPT
        !.times = [j \in 1..Len(o.times) |-> o.times[draws[j] + 1]]]

\* the three assertions of FirstPassageRate.kEff on the timeout i
TimeoutAsserts(i) ==
    /\ i.type_name = "Time"
    /\ i.tag = NoTag
    /\ i.time >= TimeoutFloor

\* FirstPassageRate.kEff: the exception that leaves it, "none" if none
FirstPassageRate_kEff_raised(o) ==
    IF \E n \in 1..Len(o.timeouts) : ~TimeoutAsserts(o.timeouts[n])
    THEN "AssertionError" ELSE "none"

\* FirstPassageRate.kEff: the value returned where none is raised
FirstPassageRate_kEff(o) ==
    NDiv(One, NMul(mean(o.times), o.concentration))

\* FirstPassageRate.kEff: what it prints
FirstPassageRate_kEff_print(o) ==
    IF Len(o.timeouts) > 0
    THEN <<"# association trajectories did not finish =", Len(o.timeouts)>>
    ELSE <<>>

\* Bootstrap.process over a FirstPassageRate: the exception that leaves it.
\* FirstPassageRate has no k1; a resample has no timeouts, so its kEff
\* passes; the sort raises
Passage_Bootstrap_raised(computek1) ==
    IF computek1 THEN "AttributeError" ELSE sort_raises

\* Bootstrap.process over a FirstPassageRate: self.effectiveRates
Passage_Bootstrap_effectiveRates(o, concentration, computek1, stream) ==
    LET r == Bootstrap_myRates(o, concentration)
    IN  IF computek1 THEN <<>>
        ELSE [i \in 1..BootN |->
                FirstPassageRate_kEff(
                    FirstPassageRate_resample(r, StreamDraws(stream, i, Len(r.times))))]

\* ------------------------------------------------ callers of the estimators

\* a trial result as the estimators read it
Trial(tag, time, collision_rate) ==
    [tag |-> tag, time |-> time, collision_rate |-> collision_rate]

\* the trial results tried
Trials ==
    {Trial(STR_SUCCESS, 1, 1), Trial(STR_SUCCESS, 2, 3),
     Trial(STR_FAILURE, 1, 2), Trial(STR_FAILURE, 3, 1),
     Trial(STR_TIMEOUT, 2, 1)}

SeqsUpTo(S, n) == UNION {[1..k -> S] : k \in 0..n}

\* MinSuccess successful trials in a row
Block == [i \in 1..MinSuccess |-> Trial(STR_SUCCESS, 1, 1)]

\* the lists of trial results tried: the short ones, and the ones around the
\* threshold of the termination policy
Datasets ==
    SeqsUpTo(Trials, MaxLen) \cup {d \o Block \o e : d, e \in SeqsUpTo(Trials, 1)}

Concentrations == {Fin(z, 1) : z \in 1..MaxConc}

\* the list with the elements at i and j exchanged
Swap(s, i, j) == [s EXCEPT ![i] = s[j], ![j] = s[i]]

NoCall == [op |-> "none"]

\* no caller of the estimators: a run of MergeSim alone
NoCaller ==
    /\ resultSet = <<>>
    /\ myRates = None
    /\ call = NoCall
    /\ boot = None
    /\ options = None

Init ==
    /\ numOfThreads \in {0 - 1, 0} \cup (1..MaxThreads)
    /\ input0 \in 1..MaxRequested
    /\ terminationCriteria \in {"None", "FirstStepRate"}
    /\ pc = "start"
    /\ error = "none"
    /\ trialsPerThread = 0
    /\ results = EmptyBag
    /\ endStates = EmptyBag
    /\ terminate = FALSE
    /\ procs = <<>>
    /\ round = 0
    /\ decisions = <<>>
    /\ produced = EmptyBag
    /\ usedSeeds = {}
    /\ clock = 0
    /\ joined = 0
    /\ engineFailed = FALSE
    /\ NoCaller

\* run that goes on with the shared lists the object holds
RunBegin_KeepLists ==
    /\ pc = "start"
    /\ IF numOfThreads = 0
       THEN /\ pc' = "raised"
            /\ error' = "ZeroDivisionError"
            /\ UNCHANGED <<trialsPerThread, results, endStates, terminate>>
       ELSE /\ trialsPerThread' = CeilDiv(input0, numOfThreads)
            /\ IF AssertHolds(numOfThreads)
               THEN /\ pc' = "loop"
                    /\ error' = "none"
                    /\ terminate' = FALSE
                    /\ UNCHANGED <<results, endStates>>
               ELSE /\ pc' = "raised"
                    /\ error' = "AssertionError"
                    /\ UNCHANGED <<results, endStates, terminate>>
    /\ UNCHANGED <<numOfThreads, input0, terminationCriteria, procs, round, decisions,
                   produced, usedSeeds, clock, joined, engineFailed>>
    /\ UNCHANGED <<rateVars, options>>

\* run, lines 602-644: the trial count per worker, the assertion, the fresh
\* shared lists
RunBegin ==
    /\ pc = "start"
    /\ IF numOfThreads = 0
       THEN /\ pc' = "raised"
            /\ error' = "ZeroDivisionError"
            /\ UNCHANGED <<trialsPerThread, results, endStates, terminate>>
       ELSE /\ trialsPerThread' = CeilDiv(input0, numOfThreads)
            /\ IF AssertHolds(numOfThreads)
               THEN /\ pc' = "loop"
                    /\ error' = "none"
                    /\ results' = EmptyBag
                    /\ endStates' = EmptyBag
                    /\ terminate' = FALSE
               ELSE /\ pc' = "raised"
                    /\ error' = "AssertionError"
                    /\ UNCHANGED <<results, endStates, terminate>>
    /\ UNCHANGED <<numOfThreads, input0, terminationCriteria, procs, round, decisions,
                   produced, usedSeeds, clock, joined, engineFailed>>
    /\ UNCHANGED <<rateVars, options>>

\* run, lines 652-659: one pass of the launch loop, i = Len(procs)
Launch(readings) ==
    /\ pc = "launch"
    /\ Len(procs) < numOfThreads
    /\ \E ticks \in {t \in readings : t >= clock} :
         /\ clock' = ticks
         /\ procs' = Append(procs,
                    [st |-> "launched",
                     seed |-> instanceSeed(Len(procs), ticks),
                     ticks |-> ticks,
                     initial_seed |-> 0 - 1,
                     num_simulations |-> 0,
                     iresults |-> <<>>,
                     end_states |-> <<>>,
                     k |-> 0,
                     e |-> 0])
    /\ pc' = IF Len(procs) + 1 = numOfThreads THEN "join" ELSE "launch"
    /\ UNCHANGED <<numOfThreads, input0, terminationCriteria, error, trialsPerThread,
                   results, endStates, terminate, round, decisions, produced,
                   usedSeeds, joined, engineFailed>>
    /\ UNCHANGED <<rateVars, options>>

\* run, lines 646-650: the loop test finds terminate False and a round begins
NextRound(cap) ==
    /\ pc = "loop"
    /\ ~terminate
    /\ numOfThreads * trialsPerThread <= cap
    /\ pc' = IF numOfThreads > 0 THEN "launch" ELSE "policy"
    /\ procs' = <<>>
    /\ joined' = 0
    /\ round' = round + 1
    /\ usedSeeds' = usedSeeds \cup {procs[i].initial_seed : i \in 1..Len(procs)}
    /\ UNCHANGED <<numOfThreads, input0, terminationCriteria, error, trialsPerThread,
                   results, endStates, terminate, decisions, produced, clock, engineFailed>>
    /\ UNCHANGED <<rateVars, options>>

\* doSim, lines 611-615: the options object, its trial count, the engine call
WorkerStart(w) ==
    /\ procs[w].st = "launched"
    /\ \/ \E r \in EngineResults(trialsPerThread) :
            /\ procs' = [procs EXCEPT ![w].st = "appending",
                                      ![w].initial_seed = new(procs[w].seed),
                                      ![w].num_simulations = trialsPerThread,
                                      ![w].iresults = r,
                                      ![w].end_states = EngineEndStates(trialsPerThread)]
            /\ produced' = produced (+) SeqToBag(r)
            /\ UNCHANGED engineFailed
       \/ /\ procs' = [procs EXCEPT ![w].st = "crashed",
                                     ![w].initial_seed = new(procs[w].seed),
                                     ![w].num_simulations = trialsPerThread]
          /\ engineFailed' = TRUE
          /\ UNCHANGED produced
    /\ UNCHANGED <<numOfThreads, input0, terminationCriteria, pc, error, trialsPerThread,
                   results, endStates, terminate, round, decisions, usedSeeds, clock, joined>>
    /\ UNCHANGED <<rateVars, options>>

\* doSim, lines 617-619: one list0.append(result)
WorkerAppendResult(w) ==
    /\ procs[w].st = "appending"
    /\ procs[w].k < Len(procs[w].iresults)
    /\ results' = BagAdd(results, procs[w].iresults[procs[w].k + 1])
    /\ procs' = [procs EXCEPT ![w].k = procs[w].k + 1]
    /\ UNCHANGED <<numOfThreads, input0, terminationCriteria, pc, error, trialsPerThread,
                   endStates, terminate, round, decisions, produced, usedSeeds,
                   clock, joined, engineFailed>>
    /\ UNCHANGED <<rateVars, options>>

\* doSim, lines 621-623: one list1.append(endState)
WorkerAppendEndState(w) ==
    /\ procs[w].st = "appending"
    /\ procs[w].k = Len(procs[w].iresults)
    /\ procs[w].e < Len(procs[w].end_states)
    /\ endStates' = BagAdd(endStates, procs[w].end_states[procs[w].e + 1])
    /\ procs' = [procs EXCEPT ![w].e = procs[w].e + 1]
    /\ UNCHANGED <<numOfThreads, input0, terminationCriteria, pc, error, trialsPerThread,
                   results, terminate, round, decisions, produced, usedSeeds,
                   clock, joined, engineFailed>>
    /\ UNCHANGED <<rateVars, options>>

\* doSim, lines 625-632: aFactory is None and debug is False, the process ends
WorkerExit(w) ==
    /\ procs[w].st = "appending"
    /\ procs[w].k = Len(procs[w].iresults)
    /\ procs[w].e = Len(procs[w].end_states)
    /\ procs' = [procs EXCEPT ![w].st = "exited"]
    /\ UNCHANGED <<numOfThreads, input0, terminationCriteria, pc, error, trialsPerThread,
                   results, endStates, terminate, round, decisions, produced,
                   usedSeeds, clock, joined, engineFailed>>
    /\ UNCHANGED <<rateVars, options>>

\* run, lines 662-663: procs[joined].join() returns
Join ==
    /\ pc = "join"
    /\ joined < numOfThreads
    /\ JoinReturns(procs[joined + 1])
    /\ joined' = joined + 1
    /\ pc' = IF joined + 1 = numOfThreads THEN "policy" ELSE "join"
    /\ UNCHANGED <<numOfThreads, input0, terminationCriteria, error, trialsPerThread,
                   results, endStates, terminate, procs, round, decisions, produced,
                   usedSeeds, clock, engineFailed>>
    /\ UNCHANGED <<rateVars, options>>

\* run, lines 668-672: the termination test at the end of a round
Policy ==
    /\ pc = "policy"
    /\ IF terminationCriteria = "None"
       THEN /\ terminate' = TRUE
            /\ UNCHANGED trialsPerThread
       ELSE /\ terminate' = FirstStepRate_terminate(ListOf(results))
            /\ trialsPerThread' = NextTrialsPerThread(trialsPerThread)
    /\ decisions' = Append(decisions, terminate')
    /\ pc' = "loop"
    /\ UNCHANGED <<numOfThreads, input0, terminationCriteria, error, results, endStates,
                   procs, round, produced, usedSeeds, clock, joined, engineFailed>>
    /\ UNCHANGED <<rateVars, options>>

\* run, lines 646 and 676-678: the loop test finds terminate True, run returns 0
Return ==
    /\ pc = "loop"
    /\ terminate
    /\ pc' = "returned"
    /\ UNCHANGED <<numOfThreads, input0, terminationCriteria, error, trialsPerThread,
                   results, endStates, terminate, procs, round, decisions, produced,
                   usedSeeds, clock, joined, engineFailed>>
    /\ UNCHANGED <<rateVars, options>>

Next ==
    \/ RunBegin
    \/ NextRound(MaxRoundTrials)
    \/ Launch(SteadyClock)
    \/ \E w \in 1..Len(procs) : WorkerStart(w)
    \/ \E w \in 1..Len(procs) : WorkerAppendResult(w)
    \/ \E w \in 1..Len(procs) : WorkerAppendEndState(w)
    \/ \E w \in 1..Len(procs) : WorkerExit(w)
    \/ Join
    \/ Policy
    \/ Return

Spec == Init /\ [][Next]_vars

\* The specification of the seeds: the same run with every clock reading at a
\* launch and a smaller cap on the rounds.
NextSeeds ==
    \/ RunBegin
    \/ NextRound(MaxSeedRoundTrials)
    \/ Launch(ClockReadings)
    \/ \E w \in 1..Len(procs) : WorkerStart(w)
    \/ \E w \in 1..Len(procs) : WorkerAppendResult(w)
    \/ \E w \in 1..Len(procs) : WorkerAppendEndState(w)
    \/ \E w \in 1..Len(procs) : WorkerExit(w)
    \/ Join
    \/ Policy
    \/ Return

SpecSeeds == Init /\ [][NextSeeds]_vars

\* The specification of repeated runs: run is called again on the same
\* MergeSim object (the module-level myMultistrand or another one) once the
\* call before has returned or raised. The fields of the object stay as the
\* earlier call left them; the local variables of run and the records kept
\* about one call start anew; call keeps what the caller found in the object.
Rerun ==
    /\ pc \in {"returned", "raised"}
    /\ pc' = "start"
    /\ error' = "none"
    /\ terminate' = FALSE
    /\ procs' = <<>>
    /\ joined' = 0
    /\ round' = 0
    /\ decisions' = <<>>
    /\ produced' = EmptyBag
    /\ usedSeeds' = {}
    /\ engineFailed' = FALSE
    /\ call' = [op |-> "run",
                results |-> results # EmptyBag,
                endStates |-> endStates # EmptyBag,
                trialsPerThread |-> trialsPerThread]
    /\ UNCHANGED <<numOfThreads, input0, terminationCriteria, trialsPerThread,
                   results, endStates, clock>>
    /\ UNCHANGED <<resultSet, myRates, boot, options>>

NextRerun ==
    \/ Next
    \/ Rerun

SpecRerun == Init /\ [][NextRerun]_vars

\* The specification of termination: a run under the adaptive policy in which
\* the thread of run goes on whenever it can (it is sequential code) and every
\* worker process goes on until it has ended (the engine call returns or
\* fails, the appends are served by the manager). The run has one worker per
\* round at most: the thread of run waits for it as it waits for several.
InitLive ==
    /\ Init
    /\ terminationCriteria = "FirstStepRate"
    /\ numOfThreads <= 1

\* the steps of the thread that called run
RunThread ==
    \/ RunBegin
    \/ NextRound(MaxRoundTrials)
    \/ Launch(SteadyClock)
    \/ Join
    \/ Policy
    \/ Return

\* the steps of the worker process w
Worker(w) ==
    /\ w \in 1..Len(procs)
    /\ \/ WorkerStart(w)
       \/ WorkerAppendResult(w)
       \/ WorkerAppendEndState(w)
       \/ WorkerExit(w)

SpecLive ==
    /\ InitLive
    /\ [][Next]_vars
    /\ WF_vars(RunThread)
    /\ \A w \in 1..MaxThreads : WF_vars(Worker(w))

\* ------------------------------------------ the caller of a FirstStepRate

\* no run of MergeSim: a caller of the estimators alone
NoRun ==
    /\ numOfThreads = 1
    /\ input0 = 1
    /\ terminationCriteria = "None"
    /\ pc = "start"
    /\ error = "none"
    /\ trialsPerThread = 0
    /\ results = EmptyBag
    /\ endStates = EmptyBag
    /\ terminate = FALSE
    /\ procs = <<>>
    /\ round = 0
    /\ decisions = <<>>
    /\ produced = EmptyBag
    /\ usedSeeds = {}
    /\ clock = 0
    /\ joined = 0
    /\ engineFailed = FALSE

\* myRates = FirstStepRate(dataset, concentration) over a list of trial results
InitRates ==
    /\ NoRun
    /\ resultSet \in Datasets
    /\ \E z \in Concentrations : myRates = FirstStepRate(resultSet, z)
    /\ call = NoCall
    /\ boot = None
    /\ options = None

\* FirstStepRate.terminate(resultSet, ...), lines 66-75
CallTerminate ==
    /\ call' = [op |-> "terminate", dataset |-> resultSet,
                ret |-> FirstStepRate_terminate(resultSet)]
    /\ UNCHANGED <<resultSet, myRates, boot>>
    /\ UNCHANGED <<runVars, options>>

\* myRates.k1(), lines 112-119
CallK1 ==
    /\ call' = [op |-> "k1", self |-> myRates, ret |-> k1(myRates)]
    /\ UNCHANGED <<resultSet, myRates, boot>>
    /\ UNCHANGED <<runVars, options>>

\* myRates.kEff(concentration), lines 143-181
CallKEff(concentration) ==
    /\ call' = [op |-> "kEff", self |-> myRates, concentration |-> concentration,
                ret |-> kEff(myRates, concentration)]
    /\ myRates' = kEff_self(myRates, concentration)
    /\ UNCHANGED <<resultSet, boot>>
    /\ UNCHANGED <<runVars, options>>

\* myRates.merge(that) with that = FirstStepRate(dataset, z), lines 248-260;
\* the caller keeps in resultSet the trial results its estimator stands for
CallMerge(dataset, z) ==
    LET that == FirstStepRate(dataset, z)
    IN  /\ Len(myRates.time) + Len(dataset) <= MaxLen
        /\ call' = [op |-> "merge", self |-> myRates, that |-> that,
                    thatAfter |-> that, printed |-> merge_print(myRates, that),
                    raised |-> "none"]
        /\ myRates' = merge(myRates, that)
        /\ resultSet' = resultSet \o dataset
        /\ UNCHANGED boot
        /\ UNCHANGED <<runVars, options>>

\* myRates.testForTwoStateness(), lines 183-206
CallTestForTwoStateness ==
    /\ call' = [op |-> "testForTwoStateness", self |-> myRates,
                warned |-> testForTwoStateness(myRates), raised |-> "none"]
    /\ myRates' = kEff_self(myRates, None)
    /\ UNCHANGED <<resultSet, boot>>
    /\ UNCHANGED <<runVars, options>>

\* the exchanges tried on a list of n trial results: any two of a short
\* list, the first and the last of a long one
Exchanges(n) ==
    IF n <= MaxLen THEN {p \in (1..n) \X (1..n) : p[1] < p[2]} ELSE {<<1, n>>}

\* the same trial results handed over in another order: two of them exchanged,
\* and the estimator built anew
Reorder(i, j) ==
    /\ call' = [op |-> "reorder", dataset |-> resultSet, z |-> myRates.z]
    /\ resultSet' = Swap(resultSet, i, j)
    /\ myRates' = FirstStepRate(resultSet', myRates.z)
    /\ UNCHANGED boot
    /\ UNCHANGED <<runVars, options>>

NextRates ==
    \/ CallTerminate
    \/ CallTestForTwoStateness
    \/ CallK1
    \/ \E c \in {None, Fin(MaxConc, 1)} : CallKEff(c)
    \/ \E d \in SeqsUpTo(Trials, MaxLen - Len(resultSet)), z \in {One, Fin(MaxConc, 1)} :
          CallMerge(d, z)
    \/ \E p \in Exchanges(Len(resultSet)) : Reorder(p[1], p[2])

SpecRates == InitRates /\ [][NextRates]_vars

\* ------------------------------------------------ the caller of Bootstrap

\* the trial results resampled
BootTrials ==
    {Trial(STR_SUCCESS, 1, 1), Trial(STR_SUCCESS, 2, 3), Trial(STR_FAILURE, 1, 2)}

\* myRates = FirstStepRate(dataset, concentration); the caller makes one call
InitBoot ==
    /\ NoRun
    /\ resultSet \in SeqsUpTo(BootTrials, MaxBootLen)
    /\ \E z \in Concentrations : myRates = FirstStepRate(resultSet, z)
    /\ call = NoCall
    /\ boot = None
    /\ options = None

\* myRates.resample(), lines 213-236
CallResample(draws) ==
    /\ call = NoCall
    /\ call' = [op |-> "resample", self |-> myRates, draws |-> draws,
                ret |-> resample(myRates, draws), raised |-> "none"]
    /\ UNCHANGED <<resultSet, myRates, boot>>
    /\ UNCHANGED <<runVars, options>>

\* Bootstrap(myRates, concentration, computek1), lines 351-389: process runs
\* the BootN resamples and then raises at the sort, so the constructor hands
\* no object to the caller; boot is the object as the exception left it
CallBootstrap(concentration, computek1, stream) ==
    /\ call = NoCall
    /\ call' = [op |-> "Bootstrap", self |-> myRates, concentration |-> concentration,
                computek1 |-> computek1,
                sampleSizes |-> [i \in 1..BootN |->
                    Len(Bootstrap_samples(myRates, concentration, stream)[i].collision_rates)],
                raised |-> sort_raises]
    /\ myRates' = Bootstrap_myRates(myRates, concentration)
    /\ boot' = [myRates |-> myRates',
                effectiveRates |->
                    Bootstrap_effectiveRates(myRates, concentration, computek1, stream),
                logEffectiveRates |-> <<>>,
                N |-> BootN]
    /\ UNCHANGED resultSet
    /\ UNCHANGED <<runVars, options>>

NextBoot ==
    \/ \E draws \in Draws(Len(myRates.collision_rates)) : CallResample(draws)
    \/ \E c \in {None, Fin(MaxConc, 1)}, computek1 \in BOOLEAN, stream \in Streams :
          CallBootstrap(c, computek1, stream)

SpecBoot == InitBoot /\ [][NextBoot]_vars

\* ------------------------------------- the caller of a FirstPassageRate

\* a trial result as FirstPassageRate reads it
PassageTrial(tag, type_name, time) ==
    [tag |-> tag, type_name |-> type_name, time |-> time]

\* the trial results tried: two successes, a timeout at the cap, a timeout
\* below the cap, a timeout below the floor of kEff, and one tagged "timeout"
PassageTrials ==
    {PassageTrial(STR_SUCCESS, "Name", 1), PassageTrial(STR_SUCCESS, "Name", 3),
     PassageTrial(NoTag, "Time", DefaultCap), PassageTrial(NoTag, "Time", TimeoutFloor),
     PassageTrial(NoTag, "Time", TimeoutFloor - 1),
     PassageTrial(STR_TIMEOUT, "Time", DefaultCap)}

\* myRates = FirstPassageRate(dataset, concentration) over trial results of
\* simulations run with options.simulation_time; the caller makes one call
InitPassage ==
    /\ NoRun
    /\ resultSet \in SeqsUpTo(PassageTrials, MaxPassageLen)
    /\ \E c \in Concentrations : myRates = FirstPassageRate(resultSet, c)
    /\ call = NoCall
    /\ boot = None
    /\ options = [simulation_time |-> DefaultCap]

\* myRates.kEff(), lines 331-348
CallPassageKEff ==
    /\ call = NoCall
    /\ call' = [op |-> "FirstPassageRate.kEff", self |-> myRates,
                raised |-> FirstPassageRate_kEff_raised(myRates),
                printed |-> FirstPassageRate_kEff_print(myRates),
                ret |-> IF FirstPassageRate_kEff_raised(myRates) = "none"
                        THEN FirstPassageRate_kEff(myRates) ELSE None]
    /\ UNCHANGED <<resultSet, myRates, boot>>
    /\ UNCHANGED <<runVars, options>>

\* myRates.resample(), lines 307-324
CallPassageResample(draws) ==
    /\ call = NoCall
    /\ call' = [op |-> "FirstPassageRate.resample", self |-> myRates, draws |-> draws,
                ret |-> FirstPassageRate_resample(myRates, draws), raised |-> "none"]
    /\ UNCHANGED <<resultSet, myRates, boot>>
    /\ UNCHANGED <<runVars, options>>

\* Bootstrap(myRates, concentration, computek1) over the FirstPassageRate,
\* lines 351-389
CallPassageBootstrap(concentration, computek1, stream) ==
    /\ call = NoCall
    /\ call' = [op |-> "Bootstrap", self |-> myRates, concentration |-> concentration,
                computek1 |-> computek1, stream |-> stream,
                raised |-> Passage_Bootstrap_raised(computek1)]
    /\ myRates' = Bootstrap_myRates(myRates, concentration)
    /\ boot' = [myRates |-> myRates',
                effectiveRates |->
                    Passage_Bootstrap_effectiveRates(myRates, concentration, computek1, stream),
                logEffectiveRates |-> <<>>,
                N |-> BootN]
    /\ UNCHANGED resultSet
    /\ UNCHANGED <<runVars, options>>

NextPassage ==
    \/ CallPassageKEff
    \/ \E draws \in Draws(Len(myRates.times)) : CallPassageResample(draws)
    \/ \E c \in {None, Fin(MaxConc + 1, 1)}, computek1 \in BOOLEAN, stream \in Streams :
          CallPassageBootstrap(c, computek1, stream)

SpecPassage == InitPassage /\ [][NextPassage]_vars

\* ------------------------------------------------------------ Options
\*
\* The output counter and the set-once lists of src/interface/_options/options.py.
\* An item of a list is known by its class; gt_enable keeps its default True,
\* so _add_start_complex raises no Warning.

Items == {"Complex", "StopCondition"}

\* Options.__init__: the fields below, as constructed
Options ==
    [output_interval |-> 0 - 1, current_interval |-> 0, output_state |-> FALSE,
     start_state |-> <<>>, stop_conditions |-> <<>>, stop_count |-> 0,
     use_stop_conditions |-> FALSE]

\* what a property access or assignment leaves: the object and the exception
Outcome(o, raised) == [o |-> o, raised |-> raised]

\* the output_interval setter
output_interval_setter(o, value) ==
    Outcome([o EXCEPT !.output_interval = value], "none")

\* the increment_output_state property; line 876 compares and assigns nothing
increment_output_state(o) ==
    IF o.output_interval < 0 THEN Outcome(o, "ValueError")
    ELSE IF o.current_interval > o.output_interval THEN Outcome(o, "ValueError")
    ELSE LET current_interval ==
                 IF o.current_interval = o.output_interval THEN o.current_interval
                 ELSE o.current_interval + 1
         IN  Outcome([o EXCEPT !.current_interval = current_interval,
                               !.output_state = (current_interval = o.output_interval)],
                     "none")

\* the items appended before the loop of the start_state setter ends or raises
RECURSIVE start_state_Appended(_)
start_state_Appended(vals) ==
    IF vals = <<>> \/ Head(vals) # "Complex" THEN <<>>
    ELSE <<Head(vals)>> \o start_state_Appended(Tail(vals))

\* the start_state setter, assigned the list vals
start_state_setter(o, vals) ==
    IF o.start_state # <<>> THEN Outcome(o, "Exception")
    ELSE IF Len(vals) = 0 THEN Outcome(o, "ValueError")
    ELSE Outcome([o EXCEPT !.start_state = start_state_Appended(vals)],
                 IF start_state_Appended(vals) = vals THEN "none" ELSE "TypeError")

\* a stop_conditions setter that replaces a stored list
stop_conditions_setter_Replace(o, stop_list) ==
    IF \E i \in 1..Len(stop_list) : stop_list[i] # "StopCondition"
    THEN Outcome(o, "TypeError")
    ELSE Outcome([o EXCEPT !.stop_count = Len(stop_list),
                           !.stop_conditions = stop_list,
                           !.use_stop_conditions = TRUE], "none")

\* the stop_conditions setter
stop_conditions_setter(o, stop_list) ==
    IF o.stop_conditions # <<>> THEN Outcome(o, "Exception")
    ELSE IF \E i \in 1..Len(stop_list) : stop_list[i] # "StopCondition"
    THEN Outcome(o, "TypeError")
    ELSE Outcome([o EXCEPT !.stop_count = Len(stop_list),
                           !.stop_conditions = stop_list,
                           !.use_stop_conditions = TRUE], "none")

\* the use_stop_conditions setter
use_stop_conditions_setter(o, val) ==
    IF val /\ Len(o.stop_conditions) = 0 THEN Outcome(o, "Warning")
    ELSE Outcome([o EXCEPT !.use_stop_conditions = val], "none")

\* options = Options(); nothing else is running
InitOptions ==
    /\ NoRun
    /\ resultSet = <<>>
    /\ myRates = None
    /\ call = NoCall
    /\ boot = None
    /\ options = Options

\* What every access below does: options moves to what the access left, call
\* keeps the object as it was, the value assigned and the exception.

\* options.output_interval = value
SetOutputInterval(value) ==
    /\ call' = [op |-> "output_interval", self |-> options, val |-> value,
                raised |-> output_interval_setter(options, value).raised]
    /\ options' = output_interval_setter(options, value).o
    /\ UNCHANGED <<resultSet, myRates, boot>>
    /\ UNCHANGED runVars

\* options.increment_output_state
IncrementOutputState ==
    /\ call' = [op |-> "increment_output_state", self |-> options, val |-> 0,
                raised |-> increment_output_state(options).raised]
    /\ options' = increment_output_state(options).o
    /\ UNCHANGED <<resultSet, myRates, boot>>
    /\ UNCHANGED runVars

\* options.start_state = vals
SetStartState(vals) ==
    /\ call' = [op |-> "start_state", self |-> options, val |-> vals,
                raised |-> start_state_setter(options, vals).raised]
    /\ options' = start_state_setter(options, vals).o
    /\ UNCHANGED <<resultSet, myRates, boot>>
    /\ UNCHANGED runVars

\* options.stop_conditions = stop_list
SetStopConditions(stop_list) ==
    /\ call' = [op |-> "stop_conditions", self |-> options, val |-> stop_list,
                raised |-> stop_conditions_setter(options, stop_list).raised]
    /\ options' = stop_conditions_setter(options, stop_list).o
    /\ UNCHANGED <<resultSet, myRates, boot>>
    /\ UNCHANGED runVars

\* options.use_stop_conditions = val
SetUseStopConditions(val) ==
    /\ call' = [op |-> "use_stop_conditions", self |-> options, val |-> val,
                raised |-> use_stop_conditions_setter(options, val).raised]
    /\ options' = use_stop_conditions_setter(options, val).o
    /\ UNCHANGED <<resultSet, myRates, boot>>
    /\ UNCHANGED runVars

NextOptions ==
    \/ \E value \in (0 - 1)..MaxInterval : SetOutputInterval(value)
    \/ IncrementOutputState
    \/ \E vals \in SeqsUpTo(Items, MaxItems) : SetStartState(vals)
    \/ \E stop_list \in SeqsUpTo(Items, MaxItems) : SetStopConditions(stop_list)
    \/ \E val \in BOOLEAN : SetUseStopConditions(val)

SpecOptions == InitOptions /\ [][NextOptions]_vars

\* ------------------------------------------------------------ properties

\* number of records of the bag B that carry the tag
CountTag(B, tag) ==
    LET hit == {x \in BagToSet(B) : x.tag = tag}
        RECURSIVE total(_)
        total(S) == IF S = {} THEN 0
                    ELSE LET x == CHOOSE y \in S : TRUE IN B[x] + total(S \ {x})
    IN  total(hit)

\* ceil(input0 / numOfThreads) for a positive numOfThreads: the least c with
\* c * numOfThreads >= input0
ExpectedTrials ==
    CHOOSE c \in 0..input0 :
        /\ c * numOfThreads >= input0
        /\ (c - 1) * numOfThreads < input0

RECURSIVE Pow2(_)
Pow2(k) == IF k <= 0 THEN 1 ELSE 2 * Pow2(k - 1)

Ended(p) == p.st \in {"exited", "crashed"}

Adaptive == terminationCriteria = "FirstStepRate"

\* C1: with no termination policy, run returns after exactly one round of
\* numOfThreads workers, each set to ceil(input0 / numOfThreads) trials; when
\* every engine call of the round completed, the ResultSet then holds exactly
\* numOfThreads * ceil(input0 / numOfThreads) records, which is input0 when
\* numOfThreads divides input0.
C1_OneRound ==
    (pc = "returned" /\ terminationCriteria = "None") =>
        /\ round = 1
        /\ Len(decisions) = 1
        /\ Len(procs) = numOfThreads
        /\ \A w \in 1..Len(procs) : procs[w].num_simulations = ExpectedTrials
        /\ ~engineFailed =>
              /\ BagCardinality(results) = numOfThreads * ExpectedTrials
              /\ (input0 % numOfThreads = 0) => BagCardinality(results) = input0

C1_Witness ==
    /\ pc = "returned"
    /\ terminationCriteria = "None"
    /\ numOfThreads = 2
    /\ input0 = 3
    /\ ~engineFailed
    /\ BagCardinality(results) = 4

\* C2: the termination policy is evaluated only when every worker of the
\* round has ended: whenever run stands at the policy test, or has evaluated
\* the policy for the current round, all numOfThreads workers of the round
\* have been launched and none of them is running or appending.
C2_Barrier ==
    (pc = "policy" \/ (round >= 1 /\ Len(decisions) = round)) =>
        /\ Len(procs) = numOfThreads
        /\ \A w \in 1..Len(procs) : Ended(procs[w])

C2_Witness ==
    /\ pc = "policy"
    /\ Adaptive
    /\ numOfThreads = 2
    /\ round = 2
    /\ procs[1].st = "exited"
    /\ procs[2].st = "exited"

\* C3: at the end of every round, for every interleaving of the appends, the
\* ResultSet is as a multiset exactly the union of the result lists the engine
\* calls of the run have returned so far (nothing lost, nothing duplicated),
\* and the same holds for the end states.
C3_Merge ==
    (pc \in {"policy", "loop", "returned"} /\ round >= 1) =>
        /\ results = produced
        /\ BagCardinality(endStates) = BagCardinality(produced)

C3_Witness ==
    /\ pc = "policy"
    /\ numOfThreads = 2
    /\ round = 2
    /\ procs[1].st = "exited"
    /\ procs[2].st = "exited"
    /\ procs[1].iresults # procs[2].iresults
    /\ BagCardinality(results) = 6

\* C4: when the engine failed in some worker, run does not return normally.
C4_FailFast ==
    pc = "returned" => ~engineFailed

\* C5: with numOfThreads <= 0 run ends in a fatal failure: no worker is
\* launched, no round is begun and nothing is returned.
C5_Precondition ==
    numOfThreads <= 0 =>
        /\ pc \in {"start", "raised"}
        /\ pc = "raised" => error \in {"ZeroDivisionError", "AssertionError"}
        /\ procs = <<>>
        /\ round = 0
        /\ results = EmptyBag

C5_Witness ==
    /\ numOfThreads < 0
    /\ pc = "raised"
    /\ error = "AssertionError"

\* C6: the seeds of any two workers launched during one run are distinct,
\* within a round and across rounds.
C6_DistinctSeeds ==
    LET started == {w \in 1..Len(procs) : procs[w].st # "launched"}
    IN  /\ \A v, w \in started : v # w => procs[v].initial_seed # procs[w].initial_seed
        /\ \A w \in started : procs[w].initial_seed \notin usedSeeds

\* C7: the seed of the worker with index i is fixed at its launch, from the
\* base seed, the index and the clock reading of the launch, the options of a
\* started worker carry its integer part, and neither changes when workers
\* end, in whatever order.
C7_SeedAtLaunch ==
    \A w \in 1..Len(procs) :
        /\ procs[w].seed =
              (w - 1) * SeedStride * Scale + (procs[w].ticks % (PerturbationModulus * Scale))
        /\ procs[w].st # "launched" =>
              /\ procs[w].initial_seed * Scale <= procs[w].seed
              /\ procs[w].seed < (procs[w].initial_seed + 1) * Scale

C7_Witness ==
    /\ Len(procs) = 2
    /\ procs[1].st = "appending"
    /\ procs[2].st = "exited"
    /\ procs[1].ticks = 1
    /\ procs[2].ticks = SeedStride * Scale
    /\ procs[1].initial_seed = 0
    /\ procs[2].initial_seed = 2 * SeedStride

\* C8: with a termination policy, round k runs initial * 2^(k-1) trials per
\* worker, a round follows only decisions "continue", and run returns only on
\* the decision "stop", which is the last one taken.
C8_Doubling ==
    Adaptive =>
        /\ pc \in {"launch", "join", "policy"} =>
              /\ trialsPerThread = ExpectedTrials * Pow2(round - 1)
              /\ Len(decisions) = round - 1
        /\ (pc = "loop" /\ round >= 1) =>
              /\ trialsPerThread = ExpectedTrials * Pow2(round)
              /\ Len(decisions) = round
        /\ \A w \in 1..Len(procs) :
              procs[w].st # "launched" =>
                  procs[w].num_simulations = ExpectedTrials * Pow2(round - 1)
        /\ \A k \in 1..(Len(decisions) - 1) : decisions[k] = FALSE
        /\ pc = "returned" =>
              /\ Len(decisions) = round
              /\ decisions[round] = TRUE

C8_Witness ==
    /\ Adaptive
    /\ pc = "returned"
    /\ round = 4
    /\ numOfThreads = 2
    /\ procs[1].num_simulations = 8

\* C9: FirstStepRate.terminate answers "stop" exactly when the ResultSet holds
\* more than 25 Success records.
C9_Threshold ==
    (Adaptive /\ pc \in {"loop", "returned"} /\ round >= 1) =>
        (terminate <=> CountTag(results, "SUCCESS") > 25)

C9_Witness ==
    /\ Adaptive
    /\ pc = "loop"
    /\ terminate
    /\ CountTag(results, "SUCCESS") = 26
    /\ CountTag(results, "FAILURE") > 0

\* C10: under the adaptive policy run returns only with at least 25 Success
\* records in the ResultSet, and no step of a run takes a record out of the
\* ResultSet.
C10_Adaptive ==
    /\ [](Adaptive /\ pc = "returned" => CountTag(results, "SUCCESS") >= 25)
    /\ [][results \sqsubseteq results']_vars

C10_Witness ==
    /\ Adaptive
    /\ pc = "returned"
    /\ round >= 3
    /\ CountTag(results, "SUCCESS") >= 25
    /\ CountTag(results, "FAILURE") > 0

\* C11: evaluating the termination policy leaves the list of trial results as
\* it was (the same records in the same number), and the decision depends on
\* the content of the list only: the policy returns the same decision on the
\* list with any two of its records exchanged.
C11_PolicyReadOnly ==
    /\ [](call.op = "terminate" =>
            \A p \in Exchanges(Len(call.dataset)) :
                FirstStepRate_terminate(Swap(call.dataset, p[1], p[2])) = call.ret)
    /\ [][call'.op = "terminate" => resultSet' = resultSet]_vars

\* the policy has said stop on a list that has another order
C11_Witness ==
    /\ call.op = "terminate"
    /\ call.ret = TRUE
    /\ resultSet = call.dataset
    /\ \E p \in Exchanges(Len(call.dataset)) :
          Swap(call.dataset, p[1], p[2]) # call.dataset

\* the records an estimator holds, as a multiset of
\* <<collision rate, success flag, failure flag, time>>
RecordsOf(o) ==
    SeqToBag([i \in 1..Len(o.time) |->
                <<o.collision_rates[i], o.was_success[i], o.was_failure[i], o.time[i]>>])

\* the number of copies the bag B holds of the elements of S
RECURSIVE BagTotal(_, _)
BagTotal(B, S) ==
    IF S = {} THEN 0
    ELSE LET x == CHOOSE y \in S : TRUE IN B[x] + BagTotal(B, S \ {x})

\* the multiset of the values e[val] over the records e of B with e[flag] = 1
Projection(B, flag, val) ==
    LET hit == {e \in BagToSet(B) : e[flag] = 1}
    IN  [v \in {e[val] : e \in hit} |-> BagTotal(B, {e \in hit : e[val] = v})]

\* C12: after A.merge(B) with A and B at the same concentration, A holds the
\* multiset union of the records of A and B, its counts nForward, nReverse,
\* nTotal and its lists of forward and reverse times and collision rates are
\* those of the union, and B is as it was.
C12_MergeIsUnion ==
    (call.op = "merge" /\ call.self.z = call.that.z) =>
        LET U == RecordsOf(call.self) (+) RecordsOf(call.that)
        IN  /\ RecordsOf(myRates) = U
            /\ myRates.nForward = BagTotal(U, {e \in BagToSet(U) : e[2] = 1})
            /\ myRates.nReverse = BagTotal(U, {e \in BagToSet(U) : e[3] = 1})
            /\ myRates.nTotal = myRates.nForward + myRates.nReverse
            /\ SeqToBag(myRates.forward_times) = Projection(U, 2, 4)
            /\ SeqToBag(myRates.reverse_times) = Projection(U, 3, 4)
            /\ SeqToBag(myRates.collision_forward) = Projection(U, 2, 1)
            /\ SeqToBag(myRates.collision_reverse) = Projection(U, 3, 1)
            /\ call.thatAfter = call.that

\* two estimators that both hold successes and failures have been merged
C12_Witness ==
    /\ call.op = "merge"
    /\ call.self.z = call.that.z
    /\ call.self.nForward > 0
    /\ call.that.nReverse > 0
    /\ call.that.nForward > 0
    /\ myRates.nTotal = 3

\* C13: merge of two estimators whose concentrations differ ends in an error
\* and leaves the receiver as it was: no record of the other estimator is
\* taken over, no aggregate changes.
C13_MergeRejected ==
    (call.op = "merge" /\ call.self.z # call.that.z) =>
        /\ call.raised # "none"
        /\ myRates = call.self

\* C14: k1 and kEff return a finite number for every list of trial results,
\* never nan or inf; k1 returns MINIMUM_RATE exactly when nTotal = 0 and kEff
\* returns MINIMUM_RATE exactly when nForward = 0.
C14_FiniteRates ==
    /\ call.op = "k1" =>
          /\ call.ret.k \in {"fin", "min"}
          /\ call.ret = MINIMUM_RATE <=> call.self.nTotal = 0
    /\ call.op = "kEff" =>
          /\ call.ret.k \in {"fin", "min"}
          /\ call.ret = MINIMUM_RATE <=> call.self.nForward = 0

\* the sum of field f over the records of the list s tagged tag
RECURSIVE SumOf(_, _, _)
SumOf(s, tag, f) ==
    IF s = <<>> THEN 0
    ELSE (IF Head(s).tag = tag THEN Head(s)[f] ELSE 0) + SumOf(Tail(s), tag, f)

\* C15: k1 is MINIMUM_RATE when there is neither a success nor a failure
\* (nTotal = 0), and where there is a success it is (nForward / nTotal) times
\* the mean collision rate of the successes, with nForward the number of
\* SUCCESS records, nReverse the number of FAILURE records and nTotal their
\* sum.  (With failures and no success the mean is taken over nothing: C14.)
C15_K1 ==
    call.op = "k1" =>
        LET nF == CountTag(SeqToBag(resultSet), "SUCCESS")
            nR == CountTag(SeqToBag(resultSet), "FAILURE")
            cF == SumOf(resultSet, "SUCCESS", "collision_rate")
        IN  /\ call.self.nForward = nF
            /\ call.self.nReverse = nR
            /\ call.self.nTotal = nF + nR
            /\ nF + nR = 0 => call.ret = MINIMUM_RATE
            /\ nF > 0 => call.ret = Fin(nF * cF, (nF + nR) * nF)

\* k1 has been taken over a success, a failure and a timeout
C15_Witness ==
    /\ call.op = "k1"
    /\ call.self.nForward = 1
    /\ call.self.nReverse = 1
    /\ Len(resultSet) = 3
    /\ call.ret = Fin(3, 2)

\* C16: with a success and a failure among the trial results and a
\* concentration z > 0, kEff is 1 / (dTcorrect * z) with
\* dTcorrect = (1/(meanCollisionReverse*z) + meanTimeReverse) * (nReverse/nForward)
\*             + (1/(meanCollisionForward*z) + meanTimeForward),
\* the means taken over the failures and over the successes; z is the
\* concentration passed, or the stored one when None is passed.
C16_KEff ==
    (call.op = "kEff" /\ call.self.nForward > 0 /\ call.self.nReverse > 0) =>
        LET nF == CountTag(SeqToBag(resultSet), "SUCCESS")
            nR == CountTag(SeqToBag(resultSet), "FAILURE")
            z == IF call.concentration = None THEN call.self.z ELSE call.concentration
            meanCollisionForward == Fin(SumOf(resultSet, "SUCCESS", "collision_rate"), nF)
            meanCollisionReverse == Fin(SumOf(resultSet, "FAILURE", "collision_rate"), nR)
            meanTimeForward == Fin(SumOf(resultSet, "SUCCESS", "time"), nF)
            meanTimeReverse == Fin(SumOf(resultSet, "FAILURE", "time"), nR)
            dTfail == NAdd(NDiv(One, NMul(meanCollisionReverse, z)), meanTimeReverse)
            dTforward == NAdd(NDiv(One, NMul(meanCollisionForward, z)), meanTimeForward)
            dTcorrect == NAdd(NMul(dTfail, Fin(nR, nF)), dTforward)
        IN  /\ call.ret = NDiv(One, NMul(dTcorrect, z))
            /\ myRates.dTcoll_forward = NDiv(One, NMul(meanCollisionForward, z))
            /\ myRates.dTcoll_reverse = NDiv(One, NMul(meanCollisionReverse, z))

\* kEff has been taken with the stored concentration 2 over a success and a
\* failure of differing collision rates
C16_Witness ==
    /\ call.op = "kEff"
    /\ call.concentration = None
    /\ call.self.z = Fin(2, 1)
    /\ resultSet = <<Trial("SUCCESS", 1, 1), Trial("FAILURE", 1, 2)>>
    /\ call.ret = Fin(2, 11)

\* C17: k1 and kEff(z) of the estimator built from the trial results in
\* another order are those of the estimator built from the original order.
C17_Permutation ==
    call.op = "reorder" =>
        LET original == FirstStepRate(call.dataset, call.z)
        IN  /\ k1(myRates) = k1(original)
            /\ \A c \in {None} \cup Concentrations :
                  kEff(myRates, c) = kEff(original, c)

\* two successes of differing collision rates have changed places, with a
\* failure in the list
C17_Witness ==
    /\ call.op = "reorder"
    /\ Len(resultSet) = 3
    /\ resultSet[1].tag = "SUCCESS"
    /\ call.dataset[1].tag = "SUCCESS"
    /\ resultSet[1] # call.dataset[1]
    /\ myRates.nReverse = 1
    /\ kEff(myRates, None).k = "fin"

\* C18: Bootstrap over an estimator that holds at least one record hands the
\* caller BootN = 400 estimates, each taken from a resample with as many
\* records as the estimator holds, all of them k1 with computek1 and all of
\* them kEff without.
C18_BootstrapYields ==
    (call.op = "Bootstrap" /\ Len(call.self.collision_rates) > 0) =>
        /\ call.raised = "none"
        /\ Len(boot.effectiveRates) = 400
        /\ \A i \in 1..400 : call.sampleSizes[i] = Len(call.self.collision_rates)

\* C19: after Bootstrap.process the estimates are in ascending order and
\* ninetyFivePercentiles returns the estimates at the indices 10 and 390 of
\* them, low <= high, both between the least and the greatest estimate.
C19_Percentiles ==
    (call.op = "Bootstrap" /\ Len(call.self.collision_rates) > 0) =>
        LET rates == boot.effectiveRates
            p == ninetyFivePercentiles(boot)
        IN  /\ call.raised = "none"
            /\ \A i \in 1..(Len(rates) - 1) : NLeq(rates[i], rates[i + 1])
            /\ p.low = rates[11]
            /\ p.high = rates[391]
            /\ NLeq(p.low, p.high)
            /\ \A i \in 1..Len(rates) : NLeq(p.low, rates[i]) \/ NLeq(rates[i], p.high)

\* C20: resample and Bootstrap on an estimator that holds no record end in
\* an error; neither returns.
C20_EmptyFails ==
    (call.op \in {"resample", "Bootstrap"} /\ Len(call.self.collision_rates) = 0) =>
        call.raised # "none"

\* the sum of field f over all records of the list s
RECURSIVE TotalOf(_, _)
TotalOf(s, f) == IF s = <<>> THEN 0 ELSE Head(s)[f] + TotalOf(Tail(s), f)

\* C21: where FirstPassageRate.kEff returns, its value is
\* 1 / (mean(time) * concentration) with the mean over the times of all
\* records of the list, those that are not successes included.
C21_PassageKEff ==
    (call.op = "FirstPassageRate.kEff" /\ call.raised = "none" /\ Len(resultSet) > 0) =>
        call.ret = NDiv(One, NMul(Fin(TotalOf(resultSet, "time"), Len(resultSet)),
                                  call.self.concentration))

\* kEff has returned over a success and a timeout at the cap
C21_Witness ==
    /\ call.op = "FirstPassageRate.kEff"
    /\ call.raised = "none"
    /\ Len(call.self.timeouts) = 1
    /\ Len(resultSet) = 2
    /\ call.self.concentration = One
    /\ call.ret = Fin(2, 601)

\* C22: FirstPassageRate keeps every record that is not a success as a
\* timeout, and kEff over a list with such a record whose time is below the
\* configured cap on the simulation time fails instead of returning a rate.
C22_TimeoutReported ==
    call.op = "FirstPassageRate.kEff" =>
        /\ call.self.timeouts = SelectSeq(resultSet, LAMBDA r : r.tag # "SUCCESS")
        /\ (\E n \in 1..Len(resultSet) :
                /\ resultSet[n].tag # "SUCCESS"
                /\ resultSet[n].time < options.simulation_time)
            => call.raised # "none"

\* C30: Bootstrap with an explicit concentration returns with the field z of
\* the estimator set to it and the records of the estimator as they were; over
\* a FirstPassageRate every estimate is the kEff of the resample at the
\* concentration the estimator was built with, over a FirstStepRate every
\* estimate is the kEff of the resample at the explicit concentration.
C30_BootstrapConcentration ==
    (call.op = "Bootstrap" /\ call.concentration # None /\ ~call.computek1) =>
        /\ call.raised = "none"
        /\ myRates.z = call.concentration
        /\ myRates = [call.self EXCEPT !.z = call.concentration]
        /\ Len(boot.effectiveRates) = 400
        /\ \A i \in 1..400 :
              boot.effectiveRates[i] =
                  FirstPassageRate_kEff(
                      FirstPassageRate_resample(call.self,
                          StreamDraws(call.stream, i, Len(call.self.times))))

\* the unimolecular waiting time uni is more than 90% of uni + coll
Dominates(uni, coll) ==
    NLess(NMul(Fin(9, 1), NAdd(coll, uni)), NMul(Fin(10, 1), uni))

\* C23: testForTwoStateness does not raise, and it prints its warning exactly
\* when the unimolecular waiting time of the successes or that of the
\* failures is more than 90% of the branch's collision plus unimolecular
\* waiting time.
C23_TwoStateWarning ==
    call.op = "testForTwoStateness" =>
        /\ call.raised = "none"
        /\ call.warned <=>
              \/ Dominates(myRates.dTsuccess_uni, myRates.dTcoll_forward)
              \/ Dominates(myRates.dTfail_uni, myRates.dTcoll_reverse)

\* C24: k1, kEff and testForTwoStateness leave the record arrays, the counts
\* and the stored concentration of the estimator as they were, and k1 and
\* kEff(z) return what they return on an estimator newly built from the same
\* trial results and concentration, whatever calls came before.
C24_Pure ==
    /\ [](call.op = "k1" => call.ret = k1(FirstStepRate(resultSet, myRates.z)))
    /\ [](call.op = "kEff" =>
            call.ret = kEff(FirstStepRate(resultSet, myRates.z), call.concentration))
    /\ [][call'.op \in {"k1", "kEff", "testForTwoStateness"} =>
            /\ myRates'.collision_rates = myRates.collision_rates
            /\ myRates'.was_success = myRates.was_success
            /\ myRates'.was_failure = myRates.was_failure
            /\ myRates'.time = myRates.time
            /\ myRates'.nForward = myRates.nForward
            /\ myRates'.nReverse = myRates.nReverse
            /\ myRates'.nTotal = myRates.nTotal
            /\ myRates'.z = myRates.z]_vars

\* kEff has been called with a concentration on an estimator that held the
\* waiting times of an earlier call at another concentration
C24_Witness ==
    /\ call.op = "kEff"
    /\ call.concentration # None
    /\ call.concentration # call.self.z
    /\ call.self.dTcoll_forward # MinusOne
    /\ call.self.dTcoll_forward # myRates.dTcoll_forward
    /\ call.ret.k = "fin"

\* C25: resample returns a new estimator with the concentration of the
\* original and as many records, each of them one whole record of the
\* original (collision rate, success flag, failure flag and time of one
\* index), with counts that are those of its records; the original estimator
\* is as it was.
C25_WholeRecords ==
    call.op = "resample" =>
        LET N == Len(call.self.collision_rates)
            copy == call.ret
        IN  /\ copy.z = call.self.z
            /\ Len(copy.collision_rates) = N
            /\ Len(copy.was_success) = N
            /\ Len(copy.was_failure) = N
            /\ Len(copy.time) = N
            /\ \A j \in 1..N : \E index \in 1..N :
                  /\ copy.collision_rates[j] = call.self.collision_rates[index]
                  /\ copy.was_success[j] = call.self.was_success[index]
                  /\ copy.was_failure[j] = call.self.was_failure[index]
                  /\ copy.time[j] = call.self.time[index]
            /\ copy.nForward = Cardinality({j \in 1..N : copy.was_success[j] = 1})
            /\ copy.nReverse = Cardinality({j \in 1..N : copy.was_failure[j] = 1})
            /\ myRates = call.self

\* one record of two differing ones has been drawn twice
C25_Witness ==
    /\ call.op = "resample"
    /\ Len(call.self.time) = 2
    /\ call.self.time[1] # call.self.time[2]
    /\ call.draws = <<1, 1>>
    /\ call.ret.time = <<call.self.time[2], call.self.time[2]>>

\* C26: with output_interval = k >= 1 and the counter within 0..k, a call of
\* increment_output_state that finds the counter at k starts it again from 0,
\* any other call moves it up by one; afterwards the counter is within 0..k
\* and output_state says whether it is at k.
C26_OutputEveryKth ==
    [][(/\ call'.op = "increment_output_state"
        /\ call'.self = options
        /\ options.output_interval >= 1
        /\ options.current_interval <= options.output_interval)
       => (/\ call'.raised = "none"
           /\ options'.current_interval =
                  IF options.current_interval = options.output_interval THEN 0
                  ELSE options.current_interval + 1
           /\ options'.current_interval <= options'.output_interval
           /\ options'.output_state =
                  (options'.current_interval = options'.output_interval))]_vars

\* C27: an assignment to start_state, or to stop_conditions, that finds a
\* non-empty list stored raises and leaves both lists, stop_count and
\* use_stop_conditions as they were; an assignment to stop_conditions that
\* does not raise stores the list, sets stop_count to its length and
\* use_stop_conditions to True.
C27_SetOnce ==
    /\ (call.op = "start_state" /\ call.self.start_state # <<>>) =>
           (call.raised = "Exception" /\ options = call.self)
    /\ (call.op = "stop_conditions" /\ call.self.stop_conditions # <<>>) =>
           (call.raised = "Exception" /\ options = call.self)
    /\ (call.op = "stop_conditions" /\ call.raised = "none") =>
           /\ options.stop_conditions = call.val
           /\ options.stop_count = Len(call.val)
           /\ options.use_stop_conditions = TRUE

\* both lists were stored and a second assignment to each was refused, the
\* one to stop_conditions last
C27_Witness ==
    /\ call.op = "stop_conditions"
    /\ call.raised = "Exception"
    /\ call.val # call.self.stop_conditions
    /\ Len(call.self.stop_conditions) = MaxItems
    /\ options.stop_count = MaxItems
    /\ options.start_state # <<>>

\* the ResultSet holds more than MinSuccess successes
Enough == CountTag(results, "SUCCESS") > MinSuccess

\* run is at the loop test after a round without any success so far, and the
\* bound on the trials of a round permits one more round
Fruitless ==
    /\ Adaptive
    /\ pc = "loop"
    /\ round >= 1
    /\ CountTag(results, "SUCCESS") = 0
    /\ numOfThreads * trialsPerThread <= MaxRoundTrials

\* C28: under the adaptive policy run leaves the round loop only on the
\* decision "stop", taken with more than 25 successes in the ResultSet; once
\* the ResultSet holds more than 25 successes run eventually returns; while
\* the ResultSet holds no success every decision is "continue", the trial
\* count has doubled with every round, and the next round is launched as long
\* as the bound on the trials of a round permits.
C28_AdaptiveExit ==
    /\ [][(Adaptive /\ pc # "returned" /\ pc' = "returned") =>
            (/\ terminate
             /\ decisions # <<>>
             /\ decisions[Len(decisions)]
             /\ Enough)]_vars
    /\ (Adaptive /\ Enough) ~> (pc = "returned")
    /\ [](Adaptive /\ pc = "loop" /\ round >= 1 /\ CountTag(results, "SUCCESS") = 0 =>
            (/\ ~terminate
             /\ trialsPerThread = ExpectedTrials * Pow2(round)))
    /\ Fruitless ~> (pc = "launch" /\ procs = <<>>)

\* run has returned after five rounds, the first of which gave no success
C28_Witness ==
    /\ Adaptive
    /\ pc = "returned"
    /\ round = 5
    /\ CountTag(results, "SUCCESS") > MinSuccess
    /\ CountTag(results, "FAILURE") > 0
    /\ engineFailed

\* C29: a call of run that gets past its precondition has, before its first
\* round, empty shared lists and ceil(input0 / numOfThreads) trials per
\* worker, whatever the object held when run was called; from then on the
\* ResultSet and the end-state list hold nothing but what the engine calls of
\* this run returned, and the trial count is the recomputed one doubled once
\* per decision of this run.
C29_FreshRun ==
    pc \notin {"start", "raised"} =>
        /\ (pc = "loop" /\ round = 0) =>
              /\ results = EmptyBag
              /\ endStates = EmptyBag
              /\ trialsPerThread = ExpectedTrials
        /\ results \sqsubseteq produced
        /\ BagCardinality(endStates) <= BagCardinality(produced)
        /\ trialsPerThread =
              ExpectedTrials * (IF Adaptive THEN Pow2(Len(decisions)) ELSE 1)

\* run was called on an object holding the lists and the doubled trial count
\* of an adaptive run, and is about to begin its first round
C29_Witness ==
    /\ call.op = "run"
    /\ call.results
    /\ call.endStates
    /\ call.trialsPerThread = 16
    /\ Adaptive
    /\ numOfThreads = 2
    /\ pc = "loop"
    /\ round = 0
    /\ results = EmptyBag
    /\ trialsPerThread = 1

====
